---- MODULE Spec2Model ----
(***************************************************************************)
(* DarthVoice: the duplex audio transform of src/main.cpp.                 *)
(*                                                                         *)
(* AudioProcessor is a QIODevice whose writeData (consume) decodes 16-bit  *)
(* samples, runs each through PitchShifter and LowPassFilter, encodes the  *)
(* result and appends it to outputBuffer, and whose readData (produce)     *)
(* removes bytes from the head of outputBuffer.  VoiceChanger owns one     *)
(* AudioProcessor, one QAudioInput (which pushes blocks into writeData)    *)
(* and one QAudioOutput (which pulls chunks out of readData).              *)
(*                                                                         *)
(* Numbers.  A C++ double is modelled as an integer count of 1/Unit, with  *)
(* Unit = 32768: every decoded sample s / 32768.0 is then exact, and the   *)
(* one inexact operation, the filter's alpha * (input - prev), is rounded  *)
(* to the nearest representable value, ties to even, as IEEE-754 rounds    *)
(* (to 2^-15 here, to 53 significant bits in the build).  alpha and the    *)
(* pitch factor are exact rationals [num, den].                            *)
(***************************************************************************)
EXTENDS Integers, Sequences, FiniteSets, TLC

\* ------------------------------------------------------------------ bounds
\* SAMPLE_RATE of src/main.cpp:18 is 44100; the delay line of PitchShifter is
\* floor(SAMPLE_RATE / factor) entries long, so the model scales the rate down.
SAMPLE_RATE == 3
\* The cutoff passed to LowPassFilter (300.0 at src/main.cpp:69), scaled with
\* the sample rate.
CutoffHz == 1
\* Samples consumed over one run of the program.
MaxSamples == 4
\* Whole samples in one block pushed by the audio input.
MaxBlock == 2
\* Largest maxlen the audio output asks readData for.
MaxRead == 3
\* Samples consumed over one run of the two-thread specification.
MaxSamplesMT == 2
\* Samples SoundTouch holds at one time in the SoundTouch variant.
MaxSamplesST == 8192

\* ------------------------------------------------------- program constants
\* PI of src/main.cpp:17 as the rational PiNum / PiDen.
PiNum == 355
PiDen == 113
\* sample / 32768.0 (src/main.cpp:106); also the resolution of modelled doubles.
Unit == 32768
\* filteredSample * 32767.0 (src/main.cpp:115).
EncodeScale == 32767
\* len / 2: bytes of one 16-bit sample (src/main.cpp:99).
Stride == 2
\* int16_t buffer[4096] of readData (src/qtst/main-st.cpp:44).
BufferCapacity == 4096
\* format.setChannelCount(1) (src/qtst/main-st.cpp:89).
ChannelCount == 1

\* 16-bit samples the capture device delivers.
InSamples == {-32768, 32767}
\* 16-bit samples fed to PitchShifter::process when it is driven on its own.
ShifterSamples == InSamples \cup {-1, 1}
\* Pitch factors given to PitchShifter's constructor; AudioProcessor passes 0.8.
Factors == { [num |-> 4, den |-> 5], [num |-> 1, den |-> 1], [num |-> 2, den |-> 1] }

VARIABLES
    isOpen,        \* QIODevice open mode of the processor is not NotOpen
    outputBuffer,  \* AudioProcessor::outputBuffer, a sequence of bytes
    buffer,        \* PitchShifter::buffer, the pending queue
    prev,          \* LowPassFilter::prev
    alpha,         \* LowPassFilter::alpha
    factor,        \* PitchShifter::factor
    inputActive,   \* audioInput has been started and not stopped
    outputActive,  \* audioOutput has been started and not stopped
    alive,         \* the VoiceChanger has not been destroyed
    last,          \* the last operation, its argument and what it returned
    appended,      \* history: every byte appended to outputBuffer
    returned,      \* history: every byte readData copied to its caller
    shiftIn,       \* history: every input of PitchShifter::process
    shiftOut,      \* history: every value PitchShifter::process returned
    peak,          \* history: largest size buffer had inside process
    writer,        \* a thread inside writeData: where it is, and its locals
    reader,        \* a thread inside readData: where it is, and its locals
    config,        \* history: the arguments LowPassFilter was constructed with
    soundTouch,    \* main-st.cpp: AudioProcessor::soundTouch, as sample counts
    gui            \* the VoiceChanger handler the GUI thread is in, and how far

vars == << isOpen, outputBuffer, buffer, prev, alpha, factor, inputActive,
           outputActive, alive, last, appended, returned, shiftIn, shiftOut, peak,
           writer, reader, config, soundTouch, gui >>

\* The two calls as threads see them: not inside a call.
WriterIdle == [ pc |-> "idle", len |-> 0, processedData |-> << >>, lost |-> FALSE ]

ReaderIdle == [ pc |-> "idle", maxlen |-> 0, bytesToRead |-> 0, data |-> << >> ]

\* ----------------------------------------------------------------- numbers
Min(a, b) == IF a <= b THEN a ELSE b

Max(a, b) == IF a >= b THEN a ELSE b

\* Integer division rounding toward zero (b > 0): a C++ double-to-integer cast.
TruncDiv(a, b) == IF a >= 0 THEN a \div b ELSE -((-a) \div b)

\* a / b rounded to the nearest integer, ties to even (b > 0).
RoundDiv(a, b) ==
    LET q == a \div b
        r == a % b
    IN  IF 2 * r < b THEN q
        ELSE IF 2 * r > b THEN q + 1
        ELSE IF q % 2 = 0 THEN q ELSE q + 1

\* The two bytes of a qint16 in memory, little-endian.
SampleBytes(s) ==
    LET u == s % 65536 IN << u % 256, u \div 256 >>

\* The qint16 read from two bytes of memory, little-endian.
SampleFromBytes(lo, hi) ==
    LET u == lo + 256 * hi IN IF u >= 32768 THEN u - 65536 ELSE u

RECURSIVE EncodeBlock(_)
\* The bytes of a block of samples as the capture device lays them out.
EncodeBlock(samples) ==
    IF samples = << >> THEN << >>
    ELSE SampleBytes(Head(samples)) \o EncodeBlock(Tail(samples))

\* ------------------------------------------------------------ LowPassFilter
\* RC = 1 / (2 PI cutoff); alpha = 1 / (RC * sampleRate + 1), as a rational.
LowPassFilterAlpha(cutoffFrequency, sampleRate) ==
    [ num |-> 2 * PiNum * cutoffFrequency,
      den |-> PiDen * sampleRate + 2 * PiNum * cutoffFrequency ]

\* output = prev + (alpha * (input - prev)); prev = output; return output.
\* Mutant of FilterProcess: the step towards the input is taken twice.
FilterProcessOvershoot(a, p, input) == p + RoundDiv(2 * a.num * (input - p), a.den)

\* Mutant of FilterProcess: input and previous output change places.
FilterProcessSwapped(a, p, input) == input + RoundDiv(a.num * (p - input), a.den)

FilterProcess(a, p, input) == p + RoundDiv(a.num * (input - p), a.den)

\* ------------------------------------------------------------- PitchShifter
\* static_cast<size_t>(1.0 / factor * SAMPLE_RATE)
Threshold(f) == (f.den * SAMPLE_RATE) \div f.num

\* Mutant of ShifterProcess: the size test is >= instead of >.
ShifterProcessAtThreshold(f, buf, input) ==
    LET pushed == Append(buf, input)
    IN  IF Len(pushed) >= Threshold(f)
        THEN [ buffer |-> Tail(pushed), out |-> Head(pushed), size |-> Len(pushed) ]
        ELSE [ buffer |-> pushed, out |-> 0, size |-> Len(pushed) ]

\* Mutant of ShifterProcess: the front is returned but never erased.
ShifterProcessNoErase(f, buf, input) ==
    LET pushed == Append(buf, input)
    IN  IF Len(pushed) > Threshold(f)
        THEN [ buffer |-> pushed, out |-> Head(pushed), size |-> Len(pushed) ]
        ELSE [ buffer |-> pushed, out |-> 0, size |-> Len(pushed) ]

\* PitchShifter::process: push_back, then pop and return the front once the
\* size exceeds the threshold, else return 0.0.
ShifterProcess(f, buf, input) ==
    LET pushed == Append(buf, input)
    IN  IF Len(pushed) > Threshold(f)
        THEN [ buffer |-> Tail(pushed), out |-> Head(pushed), size |-> Len(pushed) ]
        ELSE [ buffer |-> pushed, out |-> 0, size |-> Len(pushed) ]

\* ----------------------------------------------------------- AudioProcessor
\* static_cast<qint16>(filteredSample * 32767.0): truncation toward zero.
\* Mutant of EncodeSample: scaled by half of 32767.0.
EncodeSampleHalfScale(filteredSample) == TruncDiv(filteredSample * EncodeScale, 2 * Unit)

EncodeSample(filteredSample) == TruncDiv(filteredSample * EncodeScale, Unit)

\* double sample = samples[i] / 32768.0, exact in units of 1/Unit.
DecodeSample(raw) == (raw * Unit) \div 32768

\* Mutant of WriteStep: nothing is appended while the shifter is still silent.
WriteStepSkipSilence(st, f, a, raw) ==
    LET sample   == DecodeSample(raw)
        sh       == ShifterProcess(f, st.buffer, sample)
        filtered == FilterProcess(a, st.prev, sh.out)
        outputSample == EncodeSample(filtered)
    IN  [ buffer |-> sh.buffer,
          prev |-> filtered,
          processedData |-> IF sh.size > Threshold(f)
                            THEN st.processedData \o SampleBytes(outputSample)
                            ELSE st.processedData,
          pitched |-> Append(st.pitched, sh.out),
          decoded |-> Append(st.decoded, sample),
          peak |-> Max(st.peak, sh.size) ]

\* One iteration of the loop of writeData on the state st.
WriteStep(st, f, a, raw) ==
    LET sample   == DecodeSample(raw)
        sh       == ShifterProcess(f, st.buffer, sample)
        filtered == FilterProcess(a, st.prev, sh.out)
        outputSample == EncodeSample(filtered)
    IN  [ buffer |-> sh.buffer,
          prev |-> filtered,
          processedData |-> st.processedData \o SampleBytes(outputSample),
          pitched |-> Append(st.pitched, sh.out),
          decoded |-> Append(st.decoded, sample),
          peak |-> Max(st.peak, sh.size) ]

RECURSIVE WriteLoop(_, _, _, _, _, _)
\* for (int i = 0; i < sampleCount; ++i) of writeData; i counts from 0.
WriteLoop(st, f, a, data, i, sampleCount) ==
    IF i >= sampleCount THEN st
    ELSE WriteLoop(WriteStep(st, f, a, SampleFromBytes(data[2 * i + 1], data[2 * i + 2])),
                   f, a, data, i + 1, sampleCount)

\* int sampleCount = len / 2
SampleCount(len) == len \div Stride

\* Mutant of BytesToRead: the whole queue, whatever the caller asked for.
BytesToReadAll(q, maxlen) == Len(q)

\* qint64 bytesToRead = qMin(maxlen, outputBuffer.size())
BytesToRead(q, maxlen) == Min(maxlen, Len(q))

\* memcpy(data, outputBuffer.constData(), bytesToRead)
CopiedBytes(q, n) == SubSeq(q, 1, n)

\* Mutant of RemoveHead: the bytes are removed from the tail.
RemoveHeadFromTail(q, n) == SubSeq(q, 1, Len(q) - n)

\* outputBuffer.remove(0, bytesToRead)
RemoveHead(q, n) == SubSeq(q, n + 1, Len(q))

\* -------------------------------------------------------------------- Init
\* SoundTouch of main-st.cpp seen from outside: samples put in and not yet
\* processed, samples ready to be received, and whether receiveSamples has
\* written past the end of the caller's array.
\* The GUI thread is in no VoiceChanger handler.
GuiIdle == [ op |-> "idle", step |-> 0 ]

SoundTouchEmpty == [ pending |-> 0, ready |-> 0, overrun |-> FALSE ]

Init ==
    /\ isOpen = TRUE
    /\ outputBuffer = << >>
    /\ buffer = << >>
    /\ prev = 0
    /\ config = [ cutoffFrequency |-> CutoffHz, sampleRate |-> SAMPLE_RATE ]
    /\ alpha = LowPassFilterAlpha(CutoffHz, SAMPLE_RATE)
    /\ factor \in Factors
    /\ soundTouch = SoundTouchEmpty
    /\ gui = GuiIdle
    /\ inputActive = FALSE
    /\ outputActive = FALSE
    /\ alive = TRUE
    /\ last = [ op |-> "construct", len |-> 0, ret |-> 0, data |-> << >> ]
    /\ appended = << >>
    /\ returned = << >>
    /\ shiftIn = << >>
    /\ shiftOut = << >>
    /\ peak = 0
    /\ writer = WriterIdle
    /\ reader = ReaderIdle

\* ----------------------------------------------------------------- actions
\* Mutant of writeData: the filter starts every block from prev = 0.
writeDataFreshFilter(data, len) ==
    LET st0 == [ buffer |-> buffer, prev |-> 0, processedData |-> << >>,
                 pitched |-> << >>, decoded |-> << >>, peak |-> peak ]
        st  == WriteLoop(st0, factor, alpha, data, 0, SampleCount(len))
    IN  /\ buffer' = st.buffer
        /\ prev' = st.prev
        /\ outputBuffer' = outputBuffer \o st.processedData
        /\ appended' = appended \o st.processedData
        /\ shiftIn' = shiftIn \o st.decoded
        /\ shiftOut' = shiftOut \o st.pitched
        /\ peak' = st.peak
        /\ last' = [ op |-> "writeData", len |-> len, ret |-> len, data |-> << >> ]
        /\ UNCHANGED << isOpen, alpha, factor, inputActive, outputActive, alive, returned,
                        writer, reader, config, soundTouch, gui >>

\* AudioProcessor::writeData(data, len): the whole call.
writeData(data, len) ==
    LET st0 == [ buffer |-> buffer, prev |-> prev, processedData |-> << >>,
                 pitched |-> << >>, decoded |-> << >>, peak |-> peak ]
        st  == WriteLoop(st0, factor, alpha, data, 0, SampleCount(len))
    IN  /\ buffer' = st.buffer
        /\ prev' = st.prev
        /\ outputBuffer' = outputBuffer \o st.processedData
        /\ appended' = appended \o st.processedData
        /\ shiftIn' = shiftIn \o st.decoded
        /\ shiftOut' = shiftOut \o st.pitched
        /\ peak' = st.peak
        /\ last' = [ op |-> "writeData", len |-> len, ret |-> len, data |-> << >> ]
        /\ UNCHANGED << isOpen, alpha, factor, inputActive, outputActive, alive, returned,
                        writer, reader,
                    config, soundTouch, gui >>

\* AudioProcessor::readData(data, maxlen): the whole call.
readData(maxlen) ==
    IF outputBuffer = << >>
    THEN /\ last' = [ op |-> "readData", len |-> maxlen, ret |-> 0, data |-> << >> ]
         /\ UNCHANGED << isOpen, outputBuffer, buffer, prev, alpha, factor, inputActive,
                         outputActive, alive, appended, returned, shiftIn, shiftOut, peak,
                         writer, reader,
                    config, soundTouch, gui >>
    ELSE LET bytesToRead == BytesToRead(outputBuffer, maxlen)
             copied == CopiedBytes(outputBuffer, bytesToRead)
         IN  /\ outputBuffer' = RemoveHead(outputBuffer, bytesToRead)
             /\ returned' = returned \o copied
             /\ last' = [ op |-> "readData", len |-> maxlen, ret |-> bytesToRead,
                          data |-> copied ]
             /\ UNCHANGED << isOpen, buffer, prev, alpha, factor, inputActive,
                             outputActive, alive, appended, shiftIn, shiftOut, peak,
                             writer, reader,
                    config, soundTouch, gui >>

\* The started audio input pushes one block of captured bytes into the open
\* device: n samples, the last one cut to its first byte when len is odd.
Consume ==
    /\ alive /\ inputActive /\ isOpen
    /\ \E n \in 0..MaxBlock : \E samples \in [1..n -> InSamples] :
         \E len \in {2 * n} \cup {l \in {2 * n - 1} : n >= 1} :
            /\ Len(shiftIn) + SampleCount(len) <= MaxSamples
            /\ writeData(SubSeq(EncodeBlock(samples), 1, len), len)

\* The started audio output pulls up to maxlen bytes from the open device.
Produce ==
    /\ alive /\ outputActive /\ isOpen
    /\ \E maxlen \in 0..MaxRead : readData(maxlen)

\* VoiceChanger::startProcessing (the Start button); AudioProcessor::
\* startProcessing is open(QIODevice::ReadWrite), which touches no member.
Start ==
    /\ alive
    /\ IF ~isOpen THEN isOpen' = TRUE ELSE UNCHANGED isOpen
    /\ inputActive' = TRUE
    /\ outputActive' = TRUE
    /\ last' = [ op |-> "start", len |-> 0, ret |-> 0, data |-> << >> ]
    /\ UNCHANGED << outputBuffer, buffer, prev, alpha, factor, alive, appended,
                    returned, shiftIn, shiftOut, peak, writer, reader,
                    config, soundTouch, gui >>

\* VoiceChanger::stopProcessing body; AudioProcessor::stopProcessing is
\* close(), which touches no member.
StopBody ==
    /\ inputActive' = FALSE
    /\ outputActive' = FALSE
    /\ isOpen' = FALSE
    /\ UNCHANGED << outputBuffer, buffer, prev, alpha, factor, appended,
                    returned, shiftIn, shiftOut, peak, writer, reader,
                    config, soundTouch, gui >>

\* The Stop button.
Stop ==
    /\ alive
    /\ StopBody
    /\ last' = [ op |-> "stop", len |-> 0, ret |-> 0, data |-> << >> ]
    /\ UNCHANGED alive

\* VoiceChanger::~VoiceChanger.
Destroy ==
    /\ alive
    /\ StopBody
    /\ alive' = FALSE
    /\ last' = [ op |-> "destroy", len |-> 0, ret |-> 0, data |-> << >> ]

Next == Consume \/ Produce \/ Start \/ Stop \/ Destroy

Spec == Init /\ [][Next]_vars

\* ------------------------------------------------- PitchShifter on its own
\* One call of PitchShifter::process on the shifter, with any input sample,
\* as often as the caller likes: sustained input.
ShifterCall ==
    \E raw \in ShifterSamples :
        LET sh == ShifterProcess(factor, buffer, DecodeSample(raw))
        IN  /\ buffer' = sh.buffer
            /\ last' = [ op |-> "process", len |-> DecodeSample(raw), ret |-> sh.out,
                         data |-> << >> ]
            /\ UNCHANGED << isOpen, outputBuffer, prev, alpha, factor, inputActive,
                            outputActive, alive, appended, returned, shiftIn, shiftOut,
                            peak, writer, reader,
                    config, soundTouch, gui >>

\* The caller never stops feeding samples.
ShifterSpec == Init /\ [][ShifterCall]_vars /\ WF_vars(ShifterCall)

\* ------------------------------------- writeData and readData on two threads
\* Neither function takes a lock, so when the audio input and the audio output
\* run on different threads the steps below interleave freely.  QByteArray is
\* not thread-safe: an access to outputBuffer made while append is in progress
\* on the other thread is a data race, and the steps list what it can yield.

\* Bytes read from memory that append has not written or has given back.
GarbageBytes == {170}

\* What outputBuffer.size() or isEmpty() can observe: the size before the
\* append in progress, or the size after it.
SeenSize ==
    {Len(outputBuffer)} \cup
    (IF writer.pc = "appending"
     THEN {Len(outputBuffer) + Len(writer.processedData)} ELSE {})

\* What memcpy(data, outputBuffer.constData(), n) can copy: the bytes of the
\* array where it has them; garbage past its end, and anywhere while append is
\* reallocating it.
SeenBytes(n) ==
    LET inArray(i) == i <= Len(outputBuffer)
        held == { outputBuffer[i] : i \in 1..Len(outputBuffer) }
    IN  { d \in [1..n -> held \cup GarbageBytes] :
            \A i \in 1..n :
                \/ inArray(i) /\ d[i] = outputBuffer[i]
                \/ (~inArray(i) \/ writer.pc = "appending") /\ d[i] \in GarbageBytes }

\* writeData up to the append: the loop, which touches only the shifter, the
\* filter and the local processedData.
W_Call ==
    /\ alive /\ inputActive /\ isOpen
    /\ writer.pc = "idle"
    /\ \E n \in 0..MaxBlock : \E samples \in [1..n -> InSamples] :
         \E len \in {2 * n} \cup {l \in {2 * n - 1} : n >= 1} :
            /\ Len(shiftIn) + SampleCount(len) <= MaxSamplesMT
            /\ LET st0 == [ buffer |-> buffer, prev |-> prev, processedData |-> << >>,
                            pitched |-> << >>, decoded |-> << >>, peak |-> peak ]
                   st  == WriteLoop(st0, factor, alpha,
                                    SubSeq(EncodeBlock(samples), 1, len), 0, SampleCount(len))
               IN  /\ buffer' = st.buffer
                   /\ prev' = st.prev
                   /\ shiftIn' = shiftIn \o st.decoded
                   /\ shiftOut' = shiftOut \o st.pitched
                   /\ peak' = st.peak
                   /\ writer' = [ pc |-> "append", len |-> len,
                                  processedData |-> st.processedData, lost |-> FALSE ]
    /\ UNCHANGED << isOpen, outputBuffer, alpha, factor, inputActive, outputActive,
                    alive, last, appended, returned, reader,
                    config, soundTouch, gui >>

\* outputBuffer.append(processedData) begins.
W_AppendBegin ==
    /\ writer.pc = "append"
    /\ writer' = [writer EXCEPT !.pc = "appending"]
    /\ UNCHANGED << isOpen, outputBuffer, buffer, prev, alpha, factor, inputActive,
                    outputActive, alive, last, appended, returned, shiftIn, shiftOut,
                    peak, reader,
                    config, soundTouch, gui >>

\* outputBuffer.append(processedData) ends, and writeData returns len.  An
\* append that a remove on the other thread ran into may have been undone.
W_AppendEnd ==
    /\ writer.pc = "appending"
    /\ outputBuffer' = IF writer.lost THEN outputBuffer
                       ELSE outputBuffer \o writer.processedData
    /\ appended' = appended \o writer.processedData
    /\ last' = [ op |-> "writeData", len |-> writer.len, ret |-> writer.len,
                 data |-> << >> ]
    /\ writer' = WriterIdle
    /\ UNCHANGED << isOpen, buffer, prev, alpha, factor, inputActive, outputActive,
                    alive, returned, shiftIn, shiftOut, peak, reader,
                    config, soundTouch, gui >>

\* readData: if (outputBuffer.isEmpty()) return 0.
R_Call ==
    /\ alive /\ outputActive /\ isOpen
    /\ reader.pc = "idle"
    /\ Len(returned) < Stride * MaxSamplesMT
    /\ \E maxlen \in 0..MaxRead : \E n \in SeenSize :
         IF n = 0
         THEN /\ last' = [ op |-> "readData", len |-> maxlen, ret |-> 0, data |-> << >> ]
              /\ UNCHANGED reader
         ELSE /\ reader' = [ReaderIdle EXCEPT !.pc = "size", !.maxlen = maxlen]
              /\ UNCHANGED last
    /\ UNCHANGED << isOpen, outputBuffer, buffer, prev, alpha, factor, inputActive,
                    outputActive, alive, appended, returned, shiftIn, shiftOut, peak,
                    writer,
                    config, soundTouch, gui >>

\* readData: bytesToRead = qMin(maxlen, outputBuffer.size()).
R_Size ==
    /\ reader.pc = "size"
    /\ \E n \in SeenSize :
         reader' = [reader EXCEPT !.pc = "copy", !.bytesToRead = Min(reader.maxlen, n)]
    /\ UNCHANGED << isOpen, outputBuffer, buffer, prev, alpha, factor, inputActive,
                    outputActive, alive, last, appended, returned, shiftIn, shiftOut,
                    peak, writer,
                    config, soundTouch, gui >>

\* readData: memcpy(data, outputBuffer.constData(), bytesToRead).
R_Copy ==
    /\ reader.pc = "copy"
    /\ \E d \in SeenBytes(reader.bytesToRead) :
         reader' = [reader EXCEPT !.pc = "remove", !.data = d]
    /\ UNCHANGED << isOpen, outputBuffer, buffer, prev, alpha, factor, inputActive,
                    outputActive, alive, last, appended, returned, shiftIn, shiftOut,
                    peak, writer,
                    config, soundTouch, gui >>

\* readData: outputBuffer.remove(0, bytesToRead); return bytesToRead.  Run
\* while append is in progress, it may undo that append.
R_Remove ==
    /\ reader.pc = "remove"
    /\ outputBuffer' = RemoveHead(outputBuffer, reader.bytesToRead)
    /\ returned' = returned \o reader.data
    /\ last' = [ op |-> "readData", len |-> reader.maxlen, ret |-> reader.bytesToRead,
                 data |-> reader.data ]
    /\ reader' = ReaderIdle
    /\ IF writer.pc = "appending"
       THEN \E l \in BOOLEAN : writer' = [writer EXCEPT !.lost = l]
       ELSE UNCHANGED writer
    /\ UNCHANGED << isOpen, buffer, prev, alpha, factor, inputActive, outputActive,
                    alive, appended, shiftIn, shiftOut, peak,
                    config, soundTouch, gui >>

NextMT ==
    \/ Start
    \/ W_Call \/ W_AppendBegin \/ W_AppendEnd
    \/ R_Call \/ R_Size \/ R_Copy \/ R_Remove

SpecMT == Init /\ [][NextMT]_vars

\* ------------------------------------- the lifecycle, statement by statement
\* VoiceChanger::startProcessing, stopProcessing and the destructor taken one
\* statement at a time; the audio devices call writeData and readData whenever
\* they are started, between the statements too.

\* A button is pressed, or the window is destroyed: the handler is entered.
L_Enter ==
    /\ alive
    /\ gui = GuiIdle
    /\ \E h \in {"start", "stop", "destroy"} : gui' = [ op |-> h, step |-> 1 ]
    /\ UNCHANGED << isOpen, inputActive, outputActive, alive >>
    /\ UNCHANGED << outputBuffer, buffer, prev, alpha, factor, last, appended, returned,
                    shiftIn, shiftOut, peak, writer, reader, config, soundTouch >>

\* Mutant of L_StartOpen: the processor is not reopened.
L_StartOpenSkipped ==
    /\ gui = [ op |-> "start", step |-> 1 ]
    /\ gui' = [ op |-> "start", step |-> 2 ]
    /\ UNCHANGED << isOpen, inputActive, outputActive, alive >>
    /\ UNCHANGED << outputBuffer, buffer, prev, alpha, factor, last, appended, returned,
                    shiftIn, shiftOut, peak, writer, reader, config, soundTouch >>

\* if (!processor->isOpen()) processor->startProcessing();
L_StartOpen ==
    /\ gui = [ op |-> "start", step |-> 1 ]
    /\ IF ~isOpen THEN isOpen' = TRUE ELSE UNCHANGED isOpen
    /\ gui' = [ op |-> "start", step |-> 2 ]
    /\ UNCHANGED << inputActive, outputActive, alive >>
    /\ UNCHANGED << outputBuffer, buffer, prev, alpha, factor, last, appended, returned,
                    shiftIn, shiftOut, peak, writer, reader, config, soundTouch >>

\* audioInput->start(processor);
L_StartInput ==
    /\ gui = [ op |-> "start", step |-> 2 ]
    /\ inputActive' = TRUE
    /\ gui' = [ op |-> "start", step |-> 3 ]
    /\ UNCHANGED << isOpen, outputActive, alive >>
    /\ UNCHANGED << outputBuffer, buffer, prev, alpha, factor, last, appended, returned,
                    shiftIn, shiftOut, peak, writer, reader, config, soundTouch >>

\* audioOutput->start(processor); the handler returns.
L_StartOutput ==
    /\ gui = [ op |-> "start", step |-> 3 ]
    /\ outputActive' = TRUE
    /\ gui' = GuiIdle
    /\ UNCHANGED << isOpen, inputActive, alive >>
    /\ UNCHANGED << outputBuffer, buffer, prev, alpha, factor, last, appended, returned,
                    shiftIn, shiftOut, peak, writer, reader, config, soundTouch >>

\* audioInput->stop();
L_StopInput ==
    /\ gui.op \in {"stop", "destroy"} /\ gui.step = 1
    /\ inputActive' = FALSE
    /\ gui' = [gui EXCEPT !.step = 2]
    /\ UNCHANGED << isOpen, outputActive, alive >>
    /\ UNCHANGED << outputBuffer, buffer, prev, alpha, factor, last, appended, returned,
                    shiftIn, shiftOut, peak, writer, reader, config, soundTouch >>

\* audioOutput->stop();
L_StopOutput ==
    /\ gui.op \in {"stop", "destroy"} /\ gui.step = 2
    /\ outputActive' = FALSE
    /\ gui' = [gui EXCEPT !.step = 3]
    /\ UNCHANGED << isOpen, inputActive, alive >>
    /\ UNCHANGED << outputBuffer, buffer, prev, alpha, factor, last, appended, returned,
                    shiftIn, shiftOut, peak, writer, reader, config, soundTouch >>

\* processor->stopProcessing(), which is close(); the handler returns, and
\* the destructor ends the VoiceChanger.
L_StopClose ==
    /\ gui.op \in {"stop", "destroy"} /\ gui.step = 3
    /\ isOpen' = FALSE
    /\ alive' = (alive /\ gui.op # "destroy")
    /\ gui' = GuiIdle
    /\ UNCHANGED << inputActive, outputActive >>
    /\ UNCHANGED << outputBuffer, buffer, prev, alpha, factor, last, appended, returned,
                    shiftIn, shiftOut, peak, writer, reader, config, soundTouch >>

NextLifecycle ==
    \/ L_Enter
    \/ L_StartOpen \/ L_StartInput \/ L_StartOutput
    \/ L_StopInput \/ L_StopOutput \/ L_StopClose
    \/ Consume \/ Produce

LifecycleSpec == Init /\ [][NextLifecycle]_vars

\* ------------------------------------------------ construction with any values
\* The constructors take any double: LowPassFilter(cutoffFrequency, sampleRate)
\* and PitchShifter(pitchFactor) store what they compute, and the
\* AudioProcessor constructor then opens the device.  A den of 0 in alpha is
\* the NaN of 1.0 / (inf * 0 + 1.0).
ConfigCutoffs == {-1, 0, CutoffHz}

ConfigSampleRates == {-1, 0, SAMPLE_RATE}

ConfigFactors == Factors \cup { [num |-> 0, den |-> 1], [num |-> -1, den |-> 1] }

ConfigInit ==
    /\ config \in [ cutoffFrequency : ConfigCutoffs, sampleRate : ConfigSampleRates ]
    /\ alpha = LowPassFilterAlpha(config.cutoffFrequency, config.sampleRate)
    /\ factor \in ConfigFactors
    /\ prev = 0
    /\ buffer = << >>
    /\ outputBuffer = << >>
    /\ isOpen = TRUE
    /\ soundTouch = SoundTouchEmpty
    /\ gui = GuiIdle
    /\ inputActive = FALSE
    /\ outputActive = FALSE
    /\ alive = TRUE
    /\ last = [ op |-> "construct", len |-> 0, ret |-> 0, data |-> << >> ]
    /\ appended = << >>
    /\ returned = << >>
    /\ shiftIn = << >>
    /\ shiftOut = << >>
    /\ peak = 0
    /\ writer = WriterIdle
    /\ reader = ReaderIdle

NextConfig == Start \/ Stop \/ Destroy

ConfigSpec == ConfigInit /\ [][NextConfig]_vars

\* ------------------------------------------------------- identity round trip
\* One writeData call on one sample with a filter of alpha = 1 and a shifter
\* whose threshold is 0, so that both hand their input on unchanged.
IdentityAlpha == [ num |-> 1, den |-> 1 ]

IdentityFactor == [ num |-> SAMPLE_RATE + 1, den |-> 1 ]

RoundTripSamples == -32768..32767

RoundTripInit ==
    /\ config = [ cutoffFrequency |-> CutoffHz, sampleRate |-> SAMPLE_RATE ]
    /\ alpha = IdentityAlpha
    /\ factor = IdentityFactor
    /\ prev = 0
    /\ buffer = << >>
    /\ outputBuffer = << >>
    /\ isOpen = TRUE
    /\ soundTouch = SoundTouchEmpty
    /\ gui = GuiIdle
    /\ inputActive = TRUE
    /\ outputActive = TRUE
    /\ alive = TRUE
    /\ last = [ op |-> "start", len |-> 0, ret |-> 0, data |-> << >> ]
    /\ appended = << >>
    /\ returned = << >>
    /\ shiftIn = << >>
    /\ shiftOut = << >>
    /\ peak = 0
    /\ writer = WriterIdle
    /\ reader = ReaderIdle

RoundTripCall ==
    /\ alive /\ inputActive /\ isOpen
    /\ shiftIn = << >>
    /\ \E s \in RoundTripSamples : writeData(SampleBytes(s), 2)

RoundTripSpec == RoundTripInit /\ [][RoundTripCall]_vars

\* ------------------------------------------ the SoundTouch variant, main-st.cpp
\* The SoundTouch library is seen through the four calls the variant makes:
\* putSamples adds to the samples it holds, of which it makes any number ready;
\* flush makes all of them ready; numSamples is the count of ready samples;
\* receiveSamples(buffer, max) writes min(max, ready) samples to buffer.

\* Byte lengths the audio input pushes (its buffer is 4096 bytes).
ST_WriteLens == {0, 4096, 8192}

\* Byte lengths readData is asked for.
ST_ReadLens == {0, 1, 4096, 8192, 8194, 16384}

\* bytesAvailable of main.cpp: QIODevice::bytesAvailable() is 0 for a device
\* that is not sequential and has size() 0.
BytesAvailable == 0 + Len(outputBuffer)

\* bytesAvailable of main-st.cpp.
ST_BytesAvailable == 0 + soundTouch.ready

\* maxlen / (2 * format.channelCount()): the samples readData asks for.
ST_Requested(maxlen) == maxlen \div (2 * ChannelCount)

\* What readData of main-st.cpp returns for maxlen with the samples ready now.
ST_ReadReturn(maxlen) ==
    LET numSamples == Min(ST_Requested(maxlen), soundTouch.ready)
    IN  IF numSamples > 0 THEN Min(maxlen, numSamples * 2 * ChannelCount) ELSE 0

\* AudioProcessor::writeData of main-st.cpp: putSamples, return len.
ST_Write ==
    /\ alive /\ inputActive /\ isOpen
    /\ ~soundTouch.overrun
    /\ \E len \in ST_WriteLens :
         LET n == len \div (2 * ChannelCount)
             held == soundTouch.pending + n
         IN  /\ held + soundTouch.ready <= MaxSamplesST
             /\ \E k \in {0, n, held} :
                  soundTouch' = [soundTouch EXCEPT !.pending = held - k,
                                                   !.ready = soundTouch.ready + k]
             /\ last' = [ op |-> "st_writeData", len |-> len, ret |-> len,
                          data |-> << >> ]
    /\ UNCHANGED << isOpen, outputBuffer, buffer, prev, alpha, factor, inputActive,
                    outputActive, alive, appended, returned, shiftIn, shiftOut, peak,
                    writer, reader, config, gui >>

\* AudioProcessor::readData of main-st.cpp.  receiveSamples writes numSamples
\* samples into int16_t buffer[4096]; more than 4096 run past its end, and
\* what the program does after that is undefined.
ST_Read ==
    /\ alive /\ outputActive /\ isOpen
    /\ ~soundTouch.overrun
    /\ \E maxlen \in ST_ReadLens :
         LET numSamples == Min(ST_Requested(maxlen), soundTouch.ready)
         IN  /\ soundTouch' = [soundTouch EXCEPT
                                  !.ready = soundTouch.ready - numSamples,
                                  !.overrun = numSamples > BufferCapacity]
             /\ last' = [ op |-> "st_readData", len |-> maxlen,
                          ret |-> ST_ReadReturn(maxlen), data |-> << >>,
                          requested |-> ST_Requested(maxlen),
                          received |-> numSamples ]
    /\ UNCHANGED << isOpen, outputBuffer, buffer, prev, alpha, factor, inputActive,
                    outputActive, alive, appended, returned, shiftIn, shiftOut, peak,
                    writer, reader, config, gui >>

\* VoiceChanger::startProcessing of main-st.cpp.
ST_Start ==
    /\ alive
    /\ ~soundTouch.overrun
    /\ IF ~isOpen THEN isOpen' = TRUE ELSE UNCHANGED isOpen
    /\ inputActive' = TRUE
    /\ outputActive' = TRUE
    /\ last' = [ op |-> "st_start", len |-> 0, ret |-> 0, data |-> << >> ]
    /\ UNCHANGED << outputBuffer, buffer, prev, alpha, factor, alive, appended,
                    returned, shiftIn, shiftOut, peak, writer, reader, config,
                    soundTouch, gui >>

\* VoiceChanger::stopProcessing of main-st.cpp; AudioProcessor::stopProcessing
\* there is soundTouch.flush() and close().
ST_Stop ==
    /\ alive
    /\ ~soundTouch.overrun
    /\ inputActive' = FALSE
    /\ outputActive' = FALSE
    /\ soundTouch' = [soundTouch EXCEPT !.pending = 0,
                                        !.ready = soundTouch.ready + soundTouch.pending]
    /\ isOpen' = FALSE
    /\ last' = [ op |-> "st_stop", len |-> 0, ret |-> 0, data |-> << >> ]
    /\ UNCHANGED << outputBuffer, buffer, prev, alpha, factor, alive, appended,
                    returned, shiftIn, shiftOut, peak, writer, reader, config, gui >>

NextST == ST_Start \/ ST_Stop \/ ST_Write \/ ST_Read

SpecST == Init /\ [][NextST]_vars

\* ------------------------------------------------------------------ claims
\* C1: the bytes readData has returned so far, followed by the bytes still in
\* outputBuffer, are exactly the bytes writeData appended, in the order they
\* were appended: nothing is lost, duplicated or reordered.
C1_FifoPrefix == appended = returned \o outputBuffer

\* C1 witness: some bytes, not all zero, were returned and others still wait.
C1_Witness ==
    /\ last.op = "readData"
    /\ outputBuffer # << >>
    /\ \E i \in 1..Len(returned) : returned[i] # 0
    /\ \E i \in 1..Len(outputBuffer) : outputBuffer[i] # 0

\* C2: readData(maxlen) returns and removes exactly the first
\* min(maxlen, size) bytes of outputBuffer, never more than maxlen, and on an
\* empty outputBuffer returns 0 and changes no queue and no filter state.
C2_ProduceExact ==
    [][ last'.op = "readData" =>
          LET n == IF last'.len <= Len(outputBuffer) THEN last'.len ELSE Len(outputBuffer)
          IN  /\ last'.ret = n
              /\ last'.ret <= last'.len
              /\ last'.data = [i \in 1..n |-> outputBuffer[i]]
              /\ outputBuffer' = [i \in 1..(Len(outputBuffer) - n) |-> outputBuffer[i + n]]
              /\ buffer' = buffer /\ prev' = prev
              /\ (outputBuffer = << >> => last'.ret = 0 /\ outputBuffer' = << >>) ]_vars

\* C2 witness: a read that asked for less than was queued and got all it asked.
C2_Witness ==
    /\ last.op = "readData"
    /\ last.len > 0
    /\ last.ret = last.len
    /\ outputBuffer # << >>

\* C3 (as claimed): writeData with an odd byte length fails and changes neither
\* outputBuffer, nor the shifter's buffer, nor the filter's prev.
C3_OddLengthRejected ==
    [][ (last'.op = "writeData" /\ last'.len % 2 = 1) =>
          /\ last'.ret < 0
          /\ outputBuffer' = outputBuffer
          /\ buffer' = buffer
          /\ prev' = prev ]_vars

\* C4: writeData with an even length of n samples appends exactly 2n bytes to
\* outputBuffer, one encoded sample per input sample, during the shifter's
\* startup silence too; with zero bytes it changes no state of the processor.
\* So whenever outputBuffer has been read empty, readData has returned two
\* bytes for every sample consumed so far.
C4_OneSamplePerInput ==
    /\ [](outputBuffer = << >> => Len(returned) = 2 * Len(shiftIn))
    /\ [][ (last'.op = "writeData" /\ last'.len % 2 = 0) =>
             /\ Len(outputBuffer') = Len(outputBuffer) + last'.len
             /\ SubSeq(outputBuffer', 1, Len(outputBuffer)) = outputBuffer
             /\ Len(shiftIn') = Len(shiftIn) + (last'.len \div 2)
             /\ (last'.len = 0 =>
                    outputBuffer' = outputBuffer /\ buffer' = buffer /\ prev' = prev) ]_vars

\* C4 witness: a block of two or more samples consumed wholly inside the
\* startup silence, its bytes all queued.
C4_Witness ==
    /\ last.op = "writeData"
    /\ last.len >= 4
    /\ last.len % 2 = 0
    /\ Len(shiftIn) <= (factor.den * SAMPLE_RATE) \div factor.num
    /\ Len(outputBuffer) >= last.len

\* C5: PitchShifter::process is a delay of threshold samples: call k returns
\* 0.0 for k <= threshold and the input of call k - threshold after that.
C5_FixedDelay ==
    LET threshold == (factor.den * SAMPLE_RATE) \div factor.num
    IN  /\ Len(shiftOut) = Len(shiftIn)
        /\ \A k \in 1..Len(shiftOut) :
              shiftOut[k] = IF k <= threshold THEN 0 ELSE shiftIn[k - threshold]

\* C5 witness: the shifter is past its startup silence and has returned a
\* delayed sample.
C5_Witness ==
    /\ Len(shiftOut) > (factor.den * SAMPLE_RATE) \div factor.num
    /\ shiftOut[Len(shiftOut)] # 0

\* C6: the pending queue never holds more than ceil((1/ratio) * sampleRate) + 1
\* entries, neither between calls nor inside process after the push.
C6_PendingBounded ==
    LET ceilThreshold == (factor.den * SAMPLE_RATE + factor.num - 1) \div factor.num
    IN  /\ Len(buffer) <= ceilThreshold + 1
        /\ peak <= ceilThreshold + 1

\* C6 witness: steady state, where process has removed the head at least
\* twice and the queue is full.
C6_Witness ==
    LET threshold == (factor.den * SAMPLE_RATE) \div factor.num
    IN  /\ Len(shiftIn) >= threshold + 2
        /\ Len(buffer) = threshold
        /\ peak = threshold + 1

\* C7 (as claimed): with a pitch ratio above 1 and sustained input the pending
\* queue drains: it is eventually empty after a call of process, and from some
\* call on process returns only silence.
C7_NetDrain ==
    (factor.num > factor.den) =>
        /\ <>(last.op = "process" /\ Len(buffer) = 0)
        /\ <>[](last.op = "process" => last.ret = 0)

\* C7 (amended): with a pitch ratio above 1 the pending queue never drains.
\* Each call of process leaves it one entry longer until it holds
\* threshold = floor((1/ratio) * sampleRate) entries and at that length ever
\* after; a call that finds fewer than threshold entries returns 0.0, and a
\* call that finds threshold entries returns the oldest of them, not silence.
C7_NoDrain ==
    [][ (last'.op = "process" /\ factor.num > factor.den) =>
          LET threshold == (factor.den * SAMPLE_RATE) \div factor.num
              pushed == buffer \o << last'.len >>
          IN  /\ Len(buffer') >= Len(buffer)
              /\ Len(buffer') = IF Len(buffer) < threshold THEN Len(buffer) + 1
                                ELSE threshold
              /\ (Len(buffer) < threshold => last'.ret = 0)
              /\ (Len(buffer) = threshold => last'.ret = pushed[1]) ]_vars

\* C7 witness: ratio above 1, the queue full, and process has just returned a
\* delayed sample that is not silence.
C7_Witness ==
    /\ factor.num > factor.den
    /\ last.op = "process"
    /\ Len(buffer) = (factor.den * SAMPLE_RATE) \div factor.num
    /\ Len(buffer) >= 1
    /\ last.ret # 0

\* C8 (as claimed): every open() that takes the processor from Closed to Open
\* leaves outputBuffer and the shifter's buffer empty and the filter's prev 0.
C8_OpenResets ==
    [][ (~isOpen /\ isOpen') =>
          (outputBuffer' = << >> /\ buffer' = << >> /\ prev' = 0) ]_vars

\* C9 (as claimed): close() discards outputBuffer, the shifter's buffer and
\* the filter's prev, so nothing consumed before it can be produced after it.
C9_CloseDiscards ==
    [][ (isOpen /\ ~isOpen') =>
          (outputBuffer' = << >> /\ buffer' = << >> /\ prev' = 0) ]_vars

\* C10 (as claimed): a writeData call and a readData call on two threads never
\* overlap, each running as a whole under one lock, and between calls
\* outputBuffer holds exactly the appended bytes not yet returned.
C10_Exclusive ==
    /\ ~(writer.pc # "idle" /\ reader.pc # "idle")
    /\ ((writer.pc = "idle" /\ reader.pc = "idle") => appended = returned \o outputBuffer)

\* C11: what writeData appends depends only on the samples, not on the blocks
\* they arrive in: after any run of calls, with readData calls between them,
\* the bytes appended so far, the shifter's buffer and the filter's prev are
\* those of one writeData call on a fresh processor given all the samples
\* decoded so far as a single block.
C11_BlockIndependent ==
    LET raw   == [i \in 1..Len(shiftIn) |-> (shiftIn[i] * 32768) \div Unit]
        fresh == [ buffer |-> << >>, prev |-> 0, processedData |-> << >>,
                   pitched |-> << >>, decoded |-> << >>, peak |-> 0 ]
        whole == WriteLoop(fresh, factor, alpha, EncodeBlock(raw), 0, Len(raw))
    IN  /\ appended = whole.processedData
        /\ buffer = whole.buffer
        /\ prev = whole.prev

\* C11 witness: the last block was a single sample, at least two samples came
\* in earlier calls, bytes were read in between and the filter has moved.
C11_Witness ==
    /\ last.op = "writeData"
    /\ last.len = 2
    /\ Len(shiftIn) >= 3
    /\ returned # << >>
    /\ prev # 0
    /\ \E i \in 1..(Len(shiftOut) - 1) : shiftOut[i] # 0

\* C12 (as claimed): readData tolerates every maxlen in both variants: it
\* returns at most maxlen bytes, and in the SoundTouch variant it never asks
\* the library for more samples than int16_t buffer[4096] holds, so
\* receiveSamples never writes past the end of that array.
C12_ChunkTolerant ==
    /\ (last.op = "readData" => last.ret <= last.len)
    /\ (last.op = "st_readData" =>
          /\ last.ret <= last.len
          /\ last.requested <= BufferCapacity
          /\ ~soundTouch.overrun)

\* C17 (as claimed): bytesAvailable is the number of bytes a readData call
\* with an unlimited maxlen would return, in both variants.
C17_AvailableIsBytes ==
    /\ BytesAvailable = Len(outputBuffer)
    /\ (soundTouch.ready <= BufferCapacity =>
          ST_BytesAvailable = ST_ReadReturn(2 * ChannelCount * soundTouch.ready))

\* C13 (as claimed): a cutoff frequency, sample rate or pitch factor that is
\* not positive is rejected at construction: the processor is never open
\* while it holds an alpha or a threshold computed from such a value.
C13_InvalidRejected ==
    (\/ config.cutoffFrequency <= 0
     \/ config.sampleRate <= 0
     \/ factor.num <= 0) => ~isOpen

\* C14 (as claimed): the sample writeData encodes from a filtered value v is
\* the integer nearest to v * 32767.0, limited to [-32768, 32767]; here v is
\* the filter output of the last sample of the block, which is prev.
C14_RoundedClamped ==
    (last.op = "writeData" /\ last.len >= 2) =>
        LET n == Len(appended)
            encoded == SampleFromBytes(appended[n - 1], appended[n])
            nearest == RoundDiv(prev * 32767, Unit)
        IN  encoded = Max(-32768, Min(32767, nearest))

\* C15: the filter output at step i is prev_i, with prev_0 = 0 and
\* prev_i = prev_(i-1) + alpha * (x_i - prev_(i-1)) over the filter inputs
\* x_1..x_n (the shifter outputs): every encoded sample is the encoding of
\* prev_i, the stored previous output is prev_n, and alpha is the value the
\* constructor computed.
C15_Recurrence ==
    LET n == Len(shiftOut)
        p[i \in 0..n] ==
            IF i = 0 THEN 0
            ELSE p[i - 1] + RoundDiv(alpha.num * (shiftOut[i] - p[i - 1]), alpha.den)
    IN  /\ Len(appended) = 2 * n
        /\ \A i \in 1..n :
              SampleFromBytes(appended[2 * i - 1], appended[2 * i])
                  = TruncDiv(p[i] * 32767, Unit)
        /\ prev = p[n]
        /\ alpha = LowPassFilterAlpha(config.cutoffFrequency, config.sampleRate)

C15_Witness ==
    /\ last.op = "writeData"
    /\ prev # 0
    /\ \E i, j \in 1..Len(shiftOut) :
          i < j /\ shiftOut[i] # 0 /\ shiftOut[j] # 0 /\ shiftOut[i] # shiftOut[j]

\* C16: with alpha = 1 and a shifter threshold of 0, the sample writeData
\* appends for an input sample s differs from s by at most 1.
C16_RoundTrip ==
    (last.op = "writeData" /\ last.len = 2) =>
        LET s == (shiftIn[1] * 32768) \div Unit
            out == SampleFromBytes(outputBuffer[1], outputBuffer[2])
        IN  /\ Threshold(factor) = 0
            /\ out - s <= 1
            /\ s - out <= 1

C16_Witness ==
    /\ last.op = "writeData"
    /\ Len(outputBuffer) = 2
    /\ shiftIn = << Unit - 1 >>
    /\ SampleFromBytes(outputBuffer[1], outputBuffer[2]) = 32766

\* C18: the processor is open in every state in which the audio input or the
\* audio output is started, between the statements of the Start and Stop
\* handlers and of the destructor as well as after them.
C18_OpenWhileStarted == (inputActive \/ outputActive) => isOpen

C18_Witness ==
    /\ gui = [ op |-> "stop", step |-> 2 ]
    /\ ~inputActive /\ outputActive /\ isOpen
    /\ appended # << >>

\* C19: with alpha in (0, 1] and every decoded input in [-1, 1), the shifter
\* outputs and the filter's previous output stay within [-1, 1], so
\* filteredSample * 32767.0 lies within [-32767, 32767] and the sample stored
\* is that value, not a wrapped one.
C19_InRange ==
    /\ 0 < alpha.num /\ alpha.num <= alpha.den
    /\ \A i \in 1..Len(shiftIn) : -Unit <= shiftIn[i] /\ shiftIn[i] < Unit
    /\ \A i \in 1..Len(shiftOut) : -Unit <= shiftOut[i] /\ shiftOut[i] <= Unit
    /\ -Unit <= prev /\ prev <= Unit
    /\ -32767 * Unit <= prev * 32767 /\ prev * 32767 <= 32767 * Unit
    /\ Len(appended) >= 2 =>
          LET n == Len(appended)
          IN  appended[n - 1] + 256 * appended[n]
                  = (TruncDiv(prev * 32767, Unit) + 65536) % 65536

C19_Witness ==
    /\ last.op = "writeData"
    /\ prev < 0
    /\ \E i \in 1..Len(shiftOut) : shiftOut[i] = -Unit
    /\ \E i \in 1..Len(shiftOut) : shiftOut[i] = Unit - 1

====
